---- MODULE Spec2Model ----
(***************************************************************************)
(* pkg/minikube/assets/vm_assets.go: copyable assets (disk- and memory-    *)
(* backed) and CopyFileLocal, which materialises an asset at               *)
(* TargetDir/TargetName on the local filesystem.                           *)
(*                                                                         *)
(* The filesystem is modelled as POSIX does it: directory entries (link)   *)
(* name inodes, open files (readers, destination handles) hold an inode    *)
(* and an offset of their own, and an unlinked inode lives on while it is  *)
(* open.  Every system call CopyFileLocal makes is one step, so that two   *)
(* calls can interleave; every system call can fail.                       *)
(***************************************************************************)
EXTENDS Integers, Sequences, FiniteSets, TLC

(* ------------------------------ bounds ---------------------------------- *)
\* CopyFileLocal calls started in one behaviour
MaxCopies == 2
\* bytes io.Copy moves per Read/Write round (its buffer, scaled down)
ChunkSize == 2
\* system calls that fail in one behaviour
MaxFaults == 1
\* longest the source file grows to while it is being appended to
MaxSrcLen == 4

(* ------------------------------ inputs ---------------------------------- *)
Procs == {1, 2}
\* the asset values a caller holds
AssetIds == {1, 2}
\* inode numbers of the filesystem
InodeIds == 1..(2 + MaxCopies)

\* paths are sequences of components
SourcePath  == <<"src", "config.yaml">>
MissingPath == <<"src", "missing">>
AssetNames  == {SourcePath, MissingPath}
TargetDirs  == {<<"out", "sub">>}
TargetNames == {"greeting.txt"}

\* strings the caller passes as permissions, as sequences of characters
FilePermissions   == { <<"0", "6", "4", "4">>, <<"r", "w">>, <<"-", "1">> }
MemoryPermissions == { <<"0", "6", "0", "0">>, <<"4", "2", "0">> }

SourceContents == <<1, 1, 1>>
MemoryBuffers  == { <<2>> }
OldContents    == { <<9>>, <<9, 9, 9, 9>> }
Umasks         == {18}

(* --------------------------- pure functions ----------------------------- *)
Min(a, b) == IF a < b THEN a ELSE b

RECURSIVE Pow2(_)
Pow2(k) == IF k = 0 THEN 1 ELSE 2 * Pow2(k - 1)

\* bit k of n in two's complement (\div floors, so negative n work)
Bit(n, k) == (n \div Pow2(k)) % 2

\* a &^ m on the low nine bits
RECURSIVE AndNot(_, _, _)
AndNot(a, m, k) ==
    IF k < 0 THEN 0
    ELSE (IF Bit(a, k) = 1 /\ Bit(m, k) = 0 THEN Pow2(k) ELSE 0) + AndNot(a, m, k - 1)

\* os.Create opens with mode 0666, which the process umask cuts down
CreatePerm == 438
CreateMode(umask) == AndNot(CreatePerm, umask, 8)

DigitValue(c) ==
    CASE c = "0" -> 0 [] c = "1" -> 1 [] c = "2" -> 2 [] c = "3" -> 3 [] c = "4" -> 4
      [] c = "5" -> 5 [] c = "6" -> 6 [] c = "7" -> 7 [] c = "8" -> 8 [] c = "9" -> 9
      [] OTHER -> 10

RECURSIVE ParseDigits(_, _)
ParseDigits(s, n) ==
    IF s = <<>> THEN n ELSE ParseDigits(Tail(s), n * 10 + DigitValue(Head(s)))

\* Atoi with its error dropped (perms, _ := strconv.Atoi(...))
AtoiLenient(s) == [ok |-> TRUE, val |-> 0]

\* strconv.Atoi: optional sign, then decimal digits only (base 10 whatever the
\* leading zeros); [ok, val]
Atoi(s) ==
    IF Len(s) = 0 THEN [ok |-> FALSE, val |-> 0]
    ELSE LET body == IF s[1] \in {"-", "+"} THEN Tail(s) ELSE s
         IN  IF Len(body) < 1 \/ \E i \in 1..Len(body) : DigitValue(body[i]) > 9
             THEN [ok |-> FALSE, val |-> 0]
             ELSE [ok  |-> TRUE,
                   val |-> IF s[1] = "-" THEN 0 - ParseDigits(body, 0)
                           ELSE ParseDigits(body, 0)]

\* SyscallMode with the permission mask 0xFF for 0777
SyscallModeByteMask(perms) == perms % 256

\* target.Chmod(os.FileMode(perms)): the mode the system call receives is the
\* FileMode's nine permission bits plus setuid/setgid/sticky, which FileMode
\* keeps in bits 23, 22 and 20
SyscallMode(perms) ==
    (perms % 512) + 2048 * Bit(perms, 23) + 1024 * Bit(perms, 22) + 512 * Bit(perms, 20)

\* filepath.Join(dir, name)
Join(dir, name) == Append(dir, name)

\* the directories os.MkdirAll(dir) makes sure of
Prefixes(dir) == { SubSeq(dir, 1, k) : k \in 1..Len(dir) }

TargetPaths == { Join(d, n) : d \in TargetDirs, n \in TargetNames }
Paths == AssetNames \cup TargetPaths

(* ------------------------------- state ---------------------------------- *)
VARIABLES
    concurrent,  \* whether the caller runs CopyFileLocal from two goroutines
    umask,       \* the process umask
    dirs,        \* directories that exist
    link,        \* path -> inode number, 0 when no file is there
    inodes,      \* inode number -> [live, data, mode]
    assets,      \* sequence of the asset values constructed so far
    op,          \* per goroutine: the CopyFileLocal call it is in
    fds,         \* destination handles open: [p, id: the call that owns it, ino]
    copies,      \* CopyFileLocal calls started
    faults,      \* system calls that have failed so far
    lastCall     \* what the caller's last constructor or GetLength call returned

vars == <<concurrent, umask, dirs, link, inodes, assets, op, fds, copies, faults,
          lastCall>>

FreeInode == [live |-> FALSE, data |-> <<>>, mode |-> 0]

\* a CopyFileLocal call: where it is (pc), its locals (f, targetPath, target
\* with the handle's offset, perms), what it returned (err, with the cause), the
\* steps it has executed (trace), and what it met: the reader's offset and the
\* asset's earlier successful copies when it began (from, prior), whether a file
\* was at the destination then (existed), whether os.Stat returned an error
\* (statErr), whether os.Create made a new file (fresh)
IdleOp == [pc |-> "idle", id |-> 0, f |-> 0, targetPath |-> <<>>, target |-> 0,
           off |-> 0, perms |-> 0, err |-> "none", cause |-> "none", trace |-> <<>>,
           from |-> 0, prior |-> 0, existed |-> FALSE, statErr |-> FALSE,
           fresh |-> FALSE]

NoCall == [call |-> "none", name |-> <<>>, f |-> 0, err |-> "none", val |-> 0,
           opened |-> FALSE, stated |-> FALSE, panicked |-> FALSE]

Init ==
    /\ concurrent \in BOOLEAN
    /\ umask \in Umasks
    /\ \E old \in OldContents \cup {<<>>}, tp \in TargetPaths :
          LET haveDir == old # <<>> IN
          /\ dirs = {<<"src">>}
                      \cup (IF haveDir THEN UNION { Prefixes(d) : d \in TargetDirs } ELSE {})
          /\ link = [p \in Paths |->
                        IF p = SourcePath THEN 1
                        ELSE IF p = tp /\ old # <<>> THEN 2 ELSE 0]
          /\ inodes = [i \in InodeIds |->
                        IF i = 1 THEN [live |-> TRUE, data |-> SourceContents, mode |-> 420]
                        ELSE IF i = 2 /\ old # <<>>
                             THEN [live |-> TRUE, data |-> old, mode |-> 420]
                             ELSE FreeInode]
    /\ assets = <<>>
    /\ op = [p \in Procs |-> IdleOp]
    /\ fds = {}
    /\ copies = 0
    /\ faults = 0
    /\ lastCall = NoCall

\* the outcomes the system may give a system call: success, or failure while
\* the behaviour's failures are not used up
Outcomes == IF faults < MaxFaults THEN {TRUE, FALSE} ELSE {TRUE}
Faulted(ok) == faults' = IF ok THEN faults ELSE faults + 1

\* the caller is between calls: no CopyFileLocal is running; the concurrent
\* caller prepares its assets first and then starts its goroutines
Quiet ==
    /\ \A p \in Procs : op[p].pc \in {"idle", "done"}
    /\ concurrent => copies = 0

(* ---------------------------- the assets -------------------------------- *)
\* os.Open(name): the inode opened, 0 when the open fails (no such file, or
\* the system refuses: ok = FALSE)
OsOpen(name, ok) == IF ok /\ link[name] # 0 THEN link[name] ELSE 0

\* FileAssetValue without f.reader = file
FileAssetValueNoReader(assetName, targetDir, targetName, permissions, file) ==
    [kind |-> "file", data |-> <<>>, Length |-> 0,
     reader |-> [kind |-> "nil", ino |-> 0, off |-> 0],
     AssetName |-> assetName, TargetDir |-> targetDir, TargetName |-> targetName,
     Permissions |-> permissions, copied |-> 0]

\* the value NewFileAsset returns once the open succeeded; copied counts the
\* CopyFileLocal calls on the value that returned nil
FileAssetValue(assetName, targetDir, targetName, permissions, file) ==
    [kind |-> "file", data |-> <<>>, Length |-> 0,
     reader |-> [kind |-> "file", ino |-> file, off |-> 0],
     AssetName |-> assetName, TargetDir |-> targetDir, TargetName |-> targetName,
     Permissions |-> permissions, copied |-> 0]

\* NewFileAsset's pair of results: the asset (0 for nil) and the error
NewFileAssetResult(assetName, file, slot) ==
    IF file = 0
    THEN [NoCall EXCEPT !.call = "NewFileAsset", !.name = assetName, !.f = 0,
                        !.err = "Error opening file asset"]
    ELSE [NoCall EXCEPT !.call = "NewFileAsset", !.name = assetName, !.f = slot,
                        !.opened = TRUE]

NewFileAsset(assetName, targetDir, targetName, permissions) ==
    /\ Quiet
    /\ Len(assets) < Cardinality(AssetIds)
    /\ \E ok \in Outcomes :
         LET file == OsOpen(assetName, ok)
             res  == NewFileAssetResult(assetName, file, Len(assets) + 1)
         IN  /\ Faulted(ok)
             /\ lastCall' = res
             /\ assets' = IF res.f = 0 THEN assets
                          ELSE Append(assets, FileAssetValue(assetName, targetDir,
                                                             targetName, permissions, file))
    /\ UNCHANGED <<concurrent, umask, dirs, link, inodes, op, fds, copies>>

\* a MemoryAsset has no constructor: the caller fills in the buffer, the
\* reader over it and the length
MemoryAssetValue(buffer, targetDir, targetName, permissions) ==
    [kind |-> "mem", data |-> buffer, Length |-> Len(buffer),
     reader |-> [kind |-> "mem", ino |-> 0, off |-> 0],
     AssetName |-> <<>>, TargetDir |-> targetDir, TargetName |-> targetName,
     Permissions |-> permissions, copied |-> 0]

NewMemoryAsset(buffer, targetDir, targetName, permissions) ==
    /\ Quiet
    /\ Len(assets) < Cardinality(AssetIds)
    /\ assets' = Append(assets, MemoryAssetValue(buffer, targetDir, targetName, permissions))
    /\ lastCall' = NoCall
    /\ UNCHANGED <<faults, concurrent, umask, dirs, link, inodes, op, fds, copies>>

\* the accessors of BaseAsset
GetAssetName(f)   == f.AssetName
GetTargetDir(f)   == f.TargetDir
GetTargetName(f)  == f.TargetName
GetPermissions(f) == f.Permissions

\* the deferred file.Close() of GetLength runs on a nil *os.File when the open
\* failed; Close on a nil file returns an error, it does not panic
DeferredClosePanics(file) == FALSE

\* FileAssetGetLength reporting what is left to read of the file
FileAssetGetLengthUnread(f, okOpen, okStat) ==
    LET file == OsOpen(f.AssetName, okOpen)
    IN  [opened   |-> file # 0,
         stated   |-> file # 0 /\ okStat,
         panicked |-> FALSE,
         val      |-> IF file = 0 THEN 0
                      ELSE IF ~okStat THEN 0
                      ELSE Len(inodes[file].data) - f.reader.off]

\* FileAsset.GetLength: re-open by name, stat, size; 0 when either fails
FileAssetGetLength(f, okOpen, okStat) ==
    LET file == OsOpen(GetAssetName(f), okOpen)
    IN  [opened   |-> file # 0,
         stated   |-> file # 0 /\ okStat,
         panicked |-> DeferredClosePanics(file),
         val      |-> IF file = 0 THEN 0
                      ELSE IF ~okStat THEN 0
                      ELSE Len(inodes[file].data)]

\* MemoryAsset.GetLength: the stored field
MemoryAssetGetLength(f) ==
    [opened |-> FALSE, stated |-> FALSE, panicked |-> FALSE, val |-> f.Length]

GetLength(a) ==
    /\ Quiet
    /\ a \in 1..Len(assets)
    /\ \E okOpen \in Outcomes, okStat \in Outcomes :
         LET r == IF assets[a].kind = "file"
                  THEN FileAssetGetLength(assets[a], okOpen, okStat)
                  ELSE MemoryAssetGetLength(assets[a])
         IN  /\ assets[a].kind = "mem" => okOpen /\ okStat
             /\ ~okOpen => okStat
             /\ Faulted(okOpen /\ okStat)
             /\ lastCall' = [NoCall EXCEPT !.call = "GetLength", !.f = a, !.val = r.val,
                                            !.opened = r.opened, !.stated = r.stated,
                                            !.panicked = r.panicked]
    /\ UNCHANGED <<concurrent, umask, dirs, link, inodes, assets, op, fds, copies>>

\* what a reader yields for a Read into a buffer of n bytes, from the bytes
\* behind it: the bytes after its offset, or end of stream
ReaderRead(reader, data, n) ==
    IF reader.off >= Len(data)
    THEN [bytes |-> <<>>, err |-> "EOF"]
    ELSE [bytes |-> SubSeq(data, reader.off + 1, reader.off + Min(n, Len(data) - reader.off)),
          err   |-> "none"]

\* FileAsset.Read
FileAssetRead(f, n) ==
    IF f.reader.kind = "nil"
    THEN [bytes |-> <<>>, err |-> "reader uninitialized"]
    ELSE ReaderRead(f.reader, inodes[f.reader.ino].data, n)

\* MemoryAsset.Read
MemoryAssetRead(f, n) == ReaderRead(f.reader, f.data, n)

Read(f, n) == IF f.kind = "file" THEN FileAssetRead(f, n) ELSE MemoryAssetRead(f, n)

(* ------------------- the owner of the source file ----------------------- *)
\* the source file is appended to between the caller's calls
AppendSource ==
    /\ Quiet
    /\ link[SourcePath] # 0
    /\ Len(inodes[link[SourcePath]].data) < MaxSrcLen
    /\ inodes' = [inodes EXCEPT ![link[SourcePath]].data = Append(@, 3)]
    /\ UNCHANGED <<faults, concurrent, umask, dirs, link, assets, op, fds, copies, lastCall>>
(* --------------------------- CopyFileLocal ------------------------------ *)
\* Return that leaves the call at its step, to run it again
ReturnAndRetry(o, step, err, cause) ==
    [o EXCEPT !.err = err, !.cause = cause,
              !.trace = IF o.pc = "copying" THEN @ ELSE Append(@, step)]

\* the call returns err from its step with the name `step'
Return(o, step, err, cause) ==
    [o EXCEPT !.pc = "done", !.err = err, !.cause = cause,
              !.trace = IF o.pc = "copying" THEN @ ELSE Append(@, step)]

\* the call goes on to `next' once `step' succeeded
Advance(o, step, next) ==
    [o EXCEPT !.pc = next,
              !.trace = IF o.pc = "copying" THEN @ ELSE Append(@, step)]

\* a goroutine may call CopyFileLocal on asset a: the single-threaded caller
\* makes one call after another, on any asset; the concurrent caller has each of
\* two goroutines make one call, on an asset of its own
MayCall(p, a) ==
    IF concurrent
    THEN op[p].pc = "idle" /\ a = p
    ELSE p = 1 /\ op[p].pc \in {"idle", "done"} /\ copies < MaxCopies

\* the filesystem releases an inode that no name, no open handle and no open
\* reader refers to
Reap(ino, lk, handles) ==
    [i \in InodeIds |->
        IF ino[i].live
           /\ (\/ \E path \in Paths : lk[path] = i
               \/ \E h \in handles : h.ino = i
               \/ \E a \in 1..Len(assets) : assets[a].reader.ino = i)
        THEN ino[i] ELSE FreeInode]

\* os.MkdirAll(f.GetTargetDir(), os.ModePerm), the first step of a call on
\* asset a: nil at once when the directory is there, else the missing
\* directories are made, which can fail
MkdirAll(p, a) ==
    /\ MayCall(p, a)
    /\ a \in 1..Len(assets)
    /\ copies' = copies + 1
    /\ lastCall' = NoCall
    /\ \E ok \in (IF GetTargetDir(assets[a]) \in dirs THEN {TRUE} ELSE Outcomes) :
         LET f == assets[a]
             o == [IdleOp EXCEPT !.id = op[p].id + 1, !.f = a,
                                !.from = f.reader.off, !.prior = f.copied,
                                !.existed =
                                    link[Join(GetTargetDir(f), GetTargetName(f))] # 0]
         IN  /\ Faulted(ok)
             /\ IF ok
                THEN /\ dirs' = dirs \cup Prefixes(GetTargetDir(f))
                     /\ op' = [op EXCEPT ![p] = Advance(o, "mkdir", "stat")]
                ELSE /\ dirs' = dirs
                     /\ op' = [op EXCEPT ![p] = Return(o, "mkdir", "error making dirs", "io")]
    /\ UNCHANGED <<concurrent, umask, link, inodes, assets, fds>>

\* StatFinds that never reports the file
StatFindsNothing(path, ok) == FALSE

\* os.Stat(targetPath) returns err == nil
StatFinds(path, ok) == ok /\ link[path] # 0

\* targetPath := filepath.Join(f.GetTargetDir(), f.GetTargetName()), then
\* os.Stat(targetPath): err == nil leads to the removal, anything else skips it
Stat(p) ==
    /\ op[p].pc = "stat"
    /\ \E ok \in Outcomes :
         LET f    == assets[op[p].f]
             path == Join(GetTargetDir(f), GetTargetName(f))
         IN  /\ Faulted(ok)
             /\ op' = [op EXCEPT ![p] =
                         IF StatFinds(path, ok)
                         THEN Advance([@ EXCEPT !.targetPath = path], "stat", "remove")
                         ELSE Advance([@ EXCEPT !.targetPath = path, !.statErr = ~ok],
                                      "stat", "create")]
    /\ UNCHANGED <<concurrent, umask, dirs, link, inodes, assets, fds, copies, lastCall>>

\* os.Remove(targetPath)
Remove(p) ==
    /\ op[p].pc = "remove"
    /\ \E ok \in Outcomes :
         /\ Faulted(ok)
         /\ IF ok /\ link[op[p].targetPath] # 0
            THEN /\ link' = [link EXCEPT ![op[p].targetPath] = 0]
                 /\ inodes' = Reap(inodes, link', fds)
                 /\ op' = [op EXCEPT ![p] = Advance(@, "remove", "create")]
            ELSE /\ UNCHANGED <<link, inodes>>
                 /\ op' = [op EXCEPT ![p] = Return(@, "remove", "error removing file", "io")]
    /\ UNCHANGED <<concurrent, umask, dirs, assets, fds, copies, lastCall>>

\* os.Create(targetPath): O_RDWR|O_CREATE|O_TRUNC, 0666. A file already there is
\* truncated and keeps its inode and mode; [link, inodes, ino] afterwards
OsCreate(path) ==
    IF link[path] # 0
    THEN [link   |-> link,
          inodes |-> [inodes EXCEPT ![link[path]].data = <<>>],
          ino    |-> link[path]]
    ELSE LET new == CHOOSE i \in InodeIds :
                       ~inodes[i].live /\ \A j \in InodeIds : j < i => inodes[j].live
         IN  [link   |-> [link EXCEPT ![path] = new],
              inodes |-> [inodes EXCEPT ![new] =
                             [live |-> TRUE, data |-> <<>>, mode |-> CreateMode(umask)]],
              ino    |-> new]

Create(p) ==
    /\ op[p].pc = "create"
    /\ \E ok \in Outcomes :
         /\ Faulted(ok)
         /\ IF ok /\ SubSeq(op[p].targetPath, 1, Len(op[p].targetPath) - 1) \in dirs
            THEN LET c == OsCreate(op[p].targetPath)
                 IN  /\ link' = c.link
                     /\ inodes' = c.inodes
                     /\ fds' = fds \cup {[p |-> p, id |-> op[p].id, ino |-> c.ino]}
                     /\ op' = [op EXCEPT ![p] =
                                 Advance([@ EXCEPT !.target = c.ino, !.off = 0,
                                           !.fresh = link[op[p].targetPath] = 0],
                                         "create", "atoi")]
            ELSE /\ UNCHANGED <<link, inodes, fds>>
                 /\ op' = [op EXCEPT ![p] = Return(@, "create", "error creating file", "io")]
    /\ UNCHANGED <<concurrent, umask, dirs, assets, copies, lastCall>>

\* strconv.Atoi(f.GetPermissions())
ParsePermissions(p) ==
    /\ op[p].pc = "atoi"
    /\ LET r == Atoi(GetPermissions(assets[op[p].f]))
       IN  op' = [op EXCEPT ![p] =
                    IF r.ok
                    THEN Advance([@ EXCEPT !.perms = r.val], "atoi", "chmod")
                    ELSE Return(@, "atoi", "error converting permissions", "syntax")]
    /\ UNCHANGED <<faults, concurrent, umask, dirs, link, inodes, assets, fds, copies, lastCall>>

\* target.Chmod(os.FileMode(perms))
Chmod(p) ==
    /\ op[p].pc = "chmod"
    /\ \E ok \in Outcomes :
         /\ Faulted(ok)
         /\ IF ok
            THEN /\ inodes' = [inodes EXCEPT ![op[p].target].mode = SyscallMode(op[p].perms)]
                 /\ op' = [op EXCEPT ![p] = Advance(@, "chmod", "copy")]
            ELSE /\ inodes' = inodes
                 /\ op' = [op EXCEPT ![p] =
                             Return(@, "chmod", "error changing file permissions", "io")]
    /\ UNCHANGED <<concurrent, umask, dirs, link, assets, fds, copies, lastCall>>

\* WriteAt that writes at the start of the file whatever the offset
WriteAtStart(data, off, bytes) ==
    bytes \o SubSeq(data, Len(bytes) + 1, Len(data))

\* a write of bytes at offset off of a file holding data; a gap is zero-filled
WriteAt(data, off, bytes) ==
    LET padded == data \o [i \in 1..(off - Len(data)) |-> 0]
    IN  SubSeq(padded, 1, off) \o bytes
          \o SubSeq(padded, off + Len(bytes) + 1, Len(padded))

\* Source that seeks to the start of the stream before the first Read
SourceRewound(o, f) ==
    IF o.pc = "copy" THEN [f EXCEPT !.reader.off = 0] ELSE f

\* the src argument of io.Copy(target, f): the asset with its reader where the
\* reads before have left it
Source(o, f) == f

\* one round of io.Copy(target, f): a Read of up to ChunkSize bytes from the
\* asset, and the Write of what it gave at the handle's offset. End of stream
\* ends the copy; a Read or a Write that fails ends the call.
CopyRound(p) ==
    /\ op[p].pc \in {"copy", "copying"}
    /\ \E fail \in {"none"} \cup (IF faults < MaxFaults THEN {"read", "write"} ELSE {}) :
         LET a == op[p].f
             src == Source(op[p], assets[a])
             r == Read(src, ChunkSize)
             n == Len(r.bytes)
         IN  /\ Faulted(fail = "none" \/ r.err = "reader uninitialized")
             /\ CASE r.err = "reader uninitialized" ->
                       /\ op' = [op EXCEPT ![p] =
                                   Return(@, "copy", "error copying file", r.err)]
                       /\ UNCHANGED <<assets, inodes>>
                  [] r.err # "reader uninitialized" /\ fail = "read" ->
                       /\ op' = [op EXCEPT ![p] =
                                   Return(@, "copy", "error copying file", "io")]
                       /\ UNCHANGED <<assets, inodes>>
                  [] r.err = "EOF" /\ fail # "read" ->
                       /\ fail = "none"
                       /\ op' = [op EXCEPT ![p] = Advance(@, "copy", "close")]
                       /\ UNCHANGED <<assets, inodes>>
                  [] r.err = "none" /\ fail = "write" ->
                       /\ assets' = [assets EXCEPT ![a].reader.off = src.reader.off + n]
                       /\ op' = [op EXCEPT ![p] =
                                   Return(@, "copy", "error copying file", "io")]
                       /\ UNCHANGED inodes
                  [] r.err = "none" /\ fail = "none" ->
                       /\ assets' = [assets EXCEPT ![a].reader.off = src.reader.off + n]
                       /\ inodes' = [inodes EXCEPT ![op[p].target].data =
                                        WriteAt(@, op[p].off, r.bytes)]
                       /\ op' = [op EXCEPT ![p] =
                                   Advance([@ EXCEPT !.off = @ + n], "copy", "copying")]
    /\ UNCHANGED <<concurrent, umask, dirs, link, fds, copies, lastCall>>

\* Release that leaves the handle open
ReleaseNothing(handles, h) == handles

\* the handles open once h is closed
Release(handles, h) == handles \ {h}

\* return target.Close(): the handle is released whatever Close reports
Close(p) ==
    /\ op[p].pc = "close"
    /\ fds' = Release(fds, [p |-> p, id |-> op[p].id, ino |-> op[p].target])
    /\ inodes' = Reap(inodes, link, fds')
    /\ \E ok \in Outcomes :
         /\ Faulted(ok)
         /\ op' = [op EXCEPT ![p] =
                     Return(@, "close", IF ok THEN "none" ELSE "close",
                            IF ok THEN "none" ELSE "io")]
         /\ assets' = IF ok THEN [assets EXCEPT ![op[p].f].copied = @ + 1] ELSE assets
    /\ UNCHANGED <<concurrent, umask, dirs, link, copies, lastCall>>

(* --------------------------- specifications ----------------------------- *)
Next ==
    \/ \E n \in AssetNames, d \in TargetDirs, t \in TargetNames, m \in FilePermissions :
          NewFileAsset(n, d, t, m)
    \/ \E b \in MemoryBuffers, d \in TargetDirs, t \in TargetNames, m \in MemoryPermissions :
          NewMemoryAsset(b, d, t, m)
    \/ \E a \in AssetIds : GetLength(a)
    \/ AppendSource
    \/ \E p \in Procs, a \in AssetIds : MkdirAll(p, a)
    \/ \E p \in Procs : Stat(p)
    \/ \E p \in Procs : Remove(p)
    \/ \E p \in Procs : Create(p)
    \/ \E p \in Procs : ParsePermissions(p)
    \/ \E p \in Procs : Chmod(p)
    \/ \E p \in Procs : CopyRound(p)
    \/ \E p \in Procs : Close(p)

\* one CopyFileLocal call at a time
InitSequential == Init /\ concurrent = FALSE
Spec == InitSequential /\ [][Next]_vars

\* two goroutines calling CopyFileLocal
InitConcurrent == Init /\ concurrent = TRUE
SpecConcurrent == InitConcurrent /\ [][Next]_vars

(* ------------------------- vocabulary of the claims --------------------- *)
\* the destination path of goroutine p's call and the inode there (0: no file)
Target(p)   == Join(GetTargetDir(assets[op[p].f]), GetTargetName(assets[op[p].f]))
DestFile(p) == link[Target(p)]
DestData(p) == inodes[DestFile(p)].data
DestMode(p) == inodes[DestFile(p)].mode

\* the bytes behind an asset's reader, and those the reader had still to yield
\* when p's call began
BytesBehind(f) == IF f.kind = "file" THEN inodes[f.reader.ino].data ELSE f.data
Stream(p) ==
    SubSeq(BytesBehind(assets[op[p].f]), op[p].from + 1, Len(BytesBehind(assets[op[p].f])))

\* the reader is at end of stream: nothing was appended behind it since it was drained
Drained(f) == f.reader.off = Len(BytesBehind(f))

\* p's call returned nil and none of its system calls failed
Succeeded(p) == op[p].pc = "done" /\ op[p].err = "none" /\ ~op[p].statErr

\* the handle p's call opened on the destination
Handle(p) == [p |-> p, id |-> op[p].id, ino |-> op[p].target]

\* a string that is a decimal integer, and the integer it is
DecimalDigits == <<"0", "1", "2", "3", "4", "5", "6", "7", "8", "9">>
Unsigned(s) == IF s # <<>> /\ s[1] \in {"+", "-"} THEN Tail(s) ELSE s
DenotesInteger(s) ==
    /\ Unsigned(s) # <<>>
    /\ \A i \in 1..Len(Unsigned(s)) : \E d \in 1..10 : DecimalDigits[d] = Unsigned(s)[i]
RECURSIVE Magnitude(_)
Magnitude(d) ==
    IF d = <<>> THEN 0
    ELSE 10 * Magnitude(SubSeq(d, 1, Len(d) - 1))
           + (CHOOSE v \in 0..9 : DecimalDigits[v + 1] = d[Len(d)])
IntegerOf(s) == IF s[1] = "-" THEN 0 - Magnitude(Unsigned(s)) ELSE Magnitude(Unsigned(s))

StepOrder == <<"mkdir", "stat", "remove", "create", "atoi", "chmod", "copy", "close">>
StepIndex(step) == CHOOSE i \in 1..Len(StepOrder) : StepOrder[i] = step
\* the step an error names
ErrorStep(err) ==
    CASE err = "error making dirs" -> "mkdir"
      [] err = "error removing file" -> "remove"
      [] err = "error creating file" -> "create"
      [] err = "error converting permissions" -> "atoi"
      [] err = "error changing file permissions" -> "chmod"
      [] err = "error copying file" -> "copy"
      [] err = "close" -> "close"
      [] OTHER -> "none"

(* -------------------------------- C1 ------------------------------------ *)
\* the case of C1: a call in which no system call failed, on an asset whose
\* permission string is an integer, to a destination where no file was
C1_Case(p) ==
    /\ Succeeded(p)
    /\ ~op[p].existed
    /\ DenotesInteger(GetPermissions(assets[op[p].f]))
    /\ Drained(assets[op[p].f])

C2_ModeDenotedByString ==
    \A p \in Procs : (Succeeded(p) /\ DestFile(p) # 0) =>
        /\ GetPermissions(assets[op[p].f]) = <<"0", "6", "4", "4">> => DestMode(p) = 420
        /\ GetPermissions(assets[op[p].f]) = <<"0", "6", "0", "0">> => DestMode(p) = 384

(* -------------------------------- C3 ------------------------------------ *)
\* the case of C3: a call in which no system call failed, to a destination
\* where a file was
C3_Case(p) == Succeeded(p) /\ op[p].existed /\ Drained(assets[op[p].f])

\* C3: a successful copy onto an existing file removes that file before it
\* creates a new one, and the destination then holds exactly the asset's bytes,
\* whatever the lengths of the old contents and of the stream.
C3_OverwriteReplaces ==
    \A p \in Procs : C3_Case(p) =>
        /\ \E i, j \in 1..Len(op[p].trace) :
              i < j /\ op[p].trace[i] = "remove" /\ op[p].trace[j] = "create"
        /\ op[p].fresh
        /\ DestFile(p) # 0
        /\ DestData(p) = Stream(p)
        /\ \A i \in 1..Len(DestData(p)) : DestData(p)[i] \notin {0, 9}

\* the one byte of a memory asset has replaced the file that was there
C3_Witness ==
    \E p \in Procs : C3_Case(p) /\ op[p].prior = 0 /\ copies = 1 /\ DestData(p) = <<2>>

C5_StepsInOrder ==
    \A p \in Procs :
        LET t == op[p].trace
        IN  /\ t # <<>> => t[1] = "mkdir"
            /\ \A i \in 1..(Len(t) - 1) :
                  \/ StepIndex(t[i + 1]) = StepIndex(t[i]) + 1
                  \/ t[i] = "stat" /\ t[i + 1] = "create"
            /\ op[p].err # "none" =>
                  op[p].pc = "done" /\ ErrorStep(op[p].err) = t[Len(t)]
            /\ (op[p].pc = "done" /\ op[p].err = "none") => t[Len(t)] = "close"
            /\ (t # <<>> /\ t[Len(t)] = "close") =>
                  op[p].pc = "done" /\ op[p].err \in {"none", "close"}
            /\ (op[p].pc \notin {"idle", "done"}) =>
                  /\ t # <<>>
                  /\ StepIndex(t[Len(t)]) < StepIndex(IF op[p].pc = "copying" THEN "close"
                                                     ELSE op[p].pc)

\* a call that failed at chmod: five steps ran, none after it
C5_Witness ==
    \E p \in Procs :
        /\ op[p].pc = "done"
        /\ op[p].err = "error changing file permissions"
        /\ op[p].trace = <<"mkdir", "stat", "remove", "create", "atoi", "chmod">>

(* -------------------------------- C6 ------------------------------------ *)
\* C6: NewFileAsset returns an error and no asset for a name that cannot be
\* opened; the asset it returns otherwise has the opened file as its reader, so
\* no Read of it fails with "reader uninitialized".
C6_ConstructionOpensTheFile ==
    /\ lastCall.call = "NewFileAsset" =>
          /\ lastCall.f = 0 <=> lastCall.err # "none"
          /\ link[lastCall.name] = 0 => lastCall.f = 0
          /\ lastCall.f # 0 =>
                /\ lastCall.f = Len(assets)
                /\ assets[lastCall.f].reader =
                      [kind |-> "file", ino |-> link[lastCall.name], off |-> 0]
    /\ \A a \in 1..Len(assets) :
          assets[a].kind = "file" =>
              assets[a].reader.kind = "file" /\ inodes[assets[a].reader.ino].live
    /\ \A p \in Procs : op[p].cause # "reader uninitialized"

\* NewFileAsset on the path where no file is
C6_Witness ==
    /\ lastCall.call = "NewFileAsset"
    /\ lastCall.name = MissingPath
    /\ lastCall.f = 0
    /\ lastCall.err = "Error opening file asset"
    /\ Len(assets) = 1 /\ assets[1].kind = "file" /\ assets[1].copied = 1

(* -------------------------------- C7 ------------------------------------ *)
\* C7: FileAsset.GetLength does not abort; it returns the size the file at the
\* asset's name has at the call when the re-open and the stat succeed, whatever
\* has been read through the asset's reader, and 0 when either fails.
C7_GetLength ==
    [][\A a \in AssetIds :
          (/\ lastCall' # lastCall
           /\ lastCall'.call = "GetLength"
           /\ lastCall'.f = a
           /\ assets[a].kind = "file") =>
              /\ ~lastCall'.panicked
              /\ lastCall'.val =
                    IF lastCall'.opened /\ lastCall'.stated
                    THEN Len(inodes[link[GetAssetName(assets[a])]].data)
                    ELSE 0
              /\ (link[GetAssetName(assets[a])] # 0 /\ faults' = faults)
                    => lastCall'.opened /\ lastCall'.stated]_vars

\* the asset was read to its end at three bytes, the file has grown to four
\* since: GetLength returns 4
C7_Witness ==
    /\ lastCall.call = "GetLength"
    /\ assets[lastCall.f].kind = "file"
    /\ assets[lastCall.f].reader.off = 3
    /\ lastCall.val = 4

(* -------------------------------- C8 ------------------------------------ *)
\* C8: the destination handle is closed by the close step only: a call that
\* fails at the parse, the chmod or the copy returns with the handle open and
\* the file it created in place, holding the bytes written so far.
C8_HandleLeftOpen ==
    \A p \in Procs : op[p].pc = "done" =>
        /\ ErrorStep(op[p].err) \in {"atoi", "chmod", "copy"} =>
              /\ Handle(p) \in fds
              /\ DestFile(p) = op[p].target
              /\ Len(DestData(p)) = op[p].off
              /\ Len(DestData(p)) <= Len(Stream(p))
              /\ DestData(p) = SubSeq(Stream(p), 1, Len(DestData(p)))
              /\ ErrorStep(op[p].err) \in {"atoi", "chmod"} => DestData(p) = <<>>
        /\ ErrorStep(op[p].err) \in {"none", "close", "mkdir", "remove", "create"} =>
              \A h \in fds : ~(h.p = p /\ h.id = op[p].id)

\* a copy that failed after its first round: two of three bytes written, the
\* handle open
C8_Witness ==
    \E p \in Procs :
        /\ op[p].pc = "done"
        /\ op[p].err = "error copying file"
        /\ Handle(p) \in fds
        /\ DestData(p) = <<1, 1>>
        /\ Len(Stream(p)) = 3

(* -------------------------------- C9 ------------------------------------ *)
\* the case of C9: two calls on different assets, to the same path, have both
\* returned nil and no system call failed
C9_Case ==
    /\ \A p \in Procs : Succeeded(p)
    /\ op[1].f # op[2].f
    /\ Target(1) = Target(2)

\* C9 as stated: the destination then holds the complete bytes of one of the
\* two assets.
C9_LastWriterWins ==
    C9_Case => DestFile(1) # 0 /\ DestData(1) \in {Stream(1), Stream(2)}

\* C9, amended: the destination then holds a file, the one a call's handle is
\* on; it holds the complete bytes of one of the two assets when each call's
\* create step made a new file (when one call's create opens the file the other
\* created, both write into that file).
C9_LastCreatorWins ==
    C9_Case =>
        /\ DestFile(1) # 0
        /\ DestFile(1) \in {op[1].target, op[2].target}
        /\ (op[1].fresh /\ op[2].fresh) => DestData(1) \in {Stream(1), Stream(2)}

\* both calls made a file of their own; the disk asset's three bytes are at
\* the destination
C9_Witness ==
    /\ C9_Case
    /\ op[1].fresh /\ op[2].fresh
    /\ \E p \in Procs : assets[op[p].f].kind = "file" /\ DestData(1) = Stream(p)
    /\ Len(DestData(1)) = 3

(* -------------------------------- C10 ----------------------------------- *)
\* p's call has returned; it was on an asset copied with success before, and no
\* system call of it failed
C10_Case(p) ==
    /\ op[p].pc = "done"
    /\ op[p].prior >= 1
    /\ op[p].cause # "io"
    /\ ~op[p].statErr

\* GetLength has just returned for a disk asset copied with success before
C10_LengthCase(a) ==
    /\ lastCall' # lastCall
    /\ lastCall'.call = "GetLength"
    /\ lastCall'.f = a
    /\ assets[a].kind = "file"
    /\ assets[a].copied >= 1
    /\ lastCall'.opened /\ lastCall'.stated

\* C10 as stated: a second copy of an asset returns nil and leaves a zero-byte
\* file at the destination; GetLength goes on returning the source file's size.
C10_SecondCopyIsEmpty ==
    [][/\ \A p \in Procs : C10_Case(p)' =>
              (op[p].err = "none" /\ DestFile(p) # 0 /\ DestData(p) = <<>>)'
       /\ \A a \in AssetIds : C10_LengthCase(a) =>
              lastCall'.val = Len(inodes[link[GetAssetName(assets[a])]].data)]_vars

\* C10, amended: a second copy of an asset returns nil and replaces the file at
\* the destination by the bytes that came behind the reader since the first
\* copy drained it: a zero-byte file when the source has not grown (always, for
\* a memory asset), the appended bytes when it has. The reader is never rewound.
\* GetLength goes on returning the source file's size.
C10_SecondCopyYieldsWhatIsNew ==
    [][/\ \A p \in Procs : C10_Case(p)' =>
              (/\ op[p].err = "none"
               /\ DestFile(p) # 0
               /\ op[p].from >= Len(SourceContents) \/ assets[op[p].f].kind = "mem"
               /\ Drained(assets[op[p].f]) => DestData(p) = Stream(p)
               /\ (op[p].from = Len(BytesBehind(assets[op[p].f]))) => DestData(p) = <<>>)'
       /\ \A a \in AssetIds : C10_LengthCase(a) =>
              /\ lastCall'.val = Len(inodes[link[GetAssetName(assets[a])]].data)
              /\ lastCall'.val >= assets[a].reader.off]_vars

\* a second copy of a drained asset has put an empty file where the first
\* copy's file was
C10_Witness ==
    \E p \in Procs :
        /\ C10_Case(p)
        /\ op[p].err = "none"
        /\ op[p].existed
        /\ op[p].from = Len(BytesBehind(assets[op[p].f]))
        /\ DestData(p) = <<>>

====
